---- MODULE Spec2Model ----
(***************************************************************************)
(* A model of graphql-modules' GraphQLModule (the module graph, its        *)
(* getters, contextBuilder and context) and of the resolvers composition   *)
(* (composeResolvers).                                                     *)
(*                                                                         *)
(* JavaScript objects are modelled by their own enumerable properties.  A  *)
(* GraphQLModule instance owns `_options` (a reference to an options       *)
(* object, named by the module that was constructed with it),              *)
(* `_moduleConfig`, the arrow-function property `context` (bound to the    *)
(* instance it was created on) and whatever Object.assign writes on it.    *)
(***************************************************************************)
EXTENDS Naturals, Sequences, FiniteSets, TLC

VARIABLES
  optImports,   \* _options.imports of every options object
  optBuilder,   \* _options.contextBuilder of every options object: its style
  mods,         \* the GraphQLModule instances: their own properties
  ret,          \* the outcome of the last operation on the module graph
  cResolvers,   \* composeResolvers: the resolvers argument
  cMapping,     \* composeResolvers: the mapping argument, in key insertion order
  cOut          \* composeResolvers: the outcome of the call

vars == <<optImports, optBuilder, mods, ret, cResolvers, cMapping, cOut>>

---------------------------------------------------------------------------
(* Bounds *)

\* the longest imports array of an options object
MaxImports == 2
\* the depth of nested calls the engine's call stack allows
StackLimit == 6
\* the largest number of keys of a resolvers composition mapping
MaxEntries == 2

---------------------------------------------------------------------------
(* The modules of the program *)

Modules == {"A", "B", "C"}
\* the instance withConfig may create
Derived == {"W"}
Instances == Modules \cup Derived

\* _moduleConfig's default value {} of the constructor
DefaultConfig == "default"
\* the configs withConfig is called with
DerivedConfigs == {"custom"}

\* the modules an imports array of the module may name
Importable(o) ==
  CASE o = "A" -> {"B", "C"}
    [] o = "B" -> {"C"}
    [] o = "C" -> {"A"}

SeqsUpTo(S, n) == UNION {[1..k -> S] : k \in 0..n}

\* the imports arrays of the module: no module is listed twice in a row
ImportLists(o) ==
  {list \in SeqsUpTo(Importable(o), MaxImports) :
     \A i \in 1..(Len(list) - 1) : list[i] # list[i + 1]}

Absent == "absent"
NoOptions == "none"

---------------------------------------------------------------------------
(* GraphQLModuleOptions *)

\* the styles of a contextBuilder option: unset, a function returning a plain
\* object, an async function (returning a promise of the object)
BuilderStyles == {"unset", "sync", "async"}

\* the fields a context builder returns: one of its own and one every builder returns
CtxFieldNames == Modules \cup {"shared"}
NoFields == [f \in CtxFieldNames |-> Absent]
CtxFields(o) == [f \in CtxFieldNames |-> IF f = o \/ f = "shared" THEN o ELSE Absent]

\* the form of the providers option of each options object
ProvidersForm(o) ==
  CASE o = "A" -> "list"
    [] o = "B" -> "function"
    [] OTHER -> "unset"

ClassProvider(name) == [provide |-> <<"class", name>>, useValue |-> "instance"]

\* providers: [A1, A2] of A
ProvidersList(o) ==
  IF o = "A" THEN <<ClassProvider("A1"), ClassProvider("A2")>> ELSE << >>

\* providers: config => [{provide: 'B1', useValue: config}] of B
ProvidersFunction(o, config) ==
  IF o = "B" THEN <<[provide |-> <<"token", "B1">>, useValue |-> config]>> ELSE << >>

\* ModuleConfig(module): the token Symbol.for(`ModuleConfig.${name}`)
ModuleConfig(name) == <<"ModuleConfig", name>>

\* _options.name
NameOf(o) == o

---------------------------------------------------------------------------
(* The getters of GraphQLModule.  A getter's value is [ok, val]: ok is     *)
(* FALSE when the recursion over the imports ran out of stack.             *)

Overflow == [ok |-> FALSE, val |-> << >>]
Value(v) == [ok |-> TRUE, val |-> v]

\* get imports()
imports(ms, m) == optImports[ms[m].options]

\* the callback of the reduce of get providers(): [...module.providers, ...acc]
ProvidersFoldAppend(acc, moduleProviders) == acc \o moduleProviders
ProvidersFold(acc, moduleProviders) == moduleProviders \o acc

\* the providers array a module adds to those of its imports
OwnProviders(ms, m) ==
  LET o == ms[m].options
      config == ms[m].config
      head == <<[provide |-> ModuleConfig(NameOf(o)), useValue |-> config]>>
  IN  CASE ProvidersForm(o) = "function" -> head \o ProvidersFunction(o, config)
        [] ProvidersForm(o) = "list" -> head \o ProvidersList(o)
        [] OTHER -> head

RECURSIVE providers(_, _, _)
RECURSIVE ProvidersReduce(_, _, _, _, _)

\* this.imports.reduce((acc, module) => [...module.providers, ...acc], [])
ProvidersReduce(ms, list, i, acc, d) ==
  IF i > Len(list) THEN Value(acc)
  ELSE LET p == providers(ms, list[i], d - 1)
       IN  IF ~p.ok THEN Overflow
           ELSE ProvidersReduce(ms, list, i + 1, ProvidersFold(acc, p.val), d)

\* get providers()
providers(ms, m, d) ==
  IF d = 0 THEN Overflow
  ELSE LET r == ProvidersReduce(ms, imports(ms, m), 1, << >>, d)
       IN  IF ~r.ok THEN Overflow ELSE Value(r.val \o OwnProviders(ms, m))

\* get injector(): an Injector in which every provider of this.providers was
\* provided and initialised, in the order of the array
injector(ms, m, d) ==
  LET p == providers(ms, m, d)
  IN  IF ~p.ok THEN Overflow ELSE Value(<<[of |-> m, provided |-> p.val]>>)

---------------------------------------------------------------------------
(* Resolver maps.  A resolver map holds, per type, whether it has the type *)
(* and the resolver of each field; << >> stands for a key the type does    *)
(* not have.  A resolver is a term: the wrappers applied to it, outermost  *)
(* first, and then the wrapped value.                                      *)

TypeNames == {"Query", "User"}
ResolverFields == {"x", "y"}
NoField == << >>
Undefined == <<"undefined">>
NoType == [has |-> FALSE, f |-> [k \in ResolverFields |-> NoField]]
EmptyResolvers == [t \in TypeNames |-> NoType]

\* the call c(v) of a composer function c: the resolver c returns for v
Wrap(c, v) == <<c>> \o v

\* mergeResolvers of two maps: the later map's resolver wins on a type and field
MergeTwo(a, b) ==
  [t \in TypeNames |->
     [has |-> a[t].has \/ b[t].has,
      f |-> [k \in ResolverFields |->
               IF b[t].f[k] # NoField THEN b[t].f[k] ELSE a[t].f[k]]]]

RECURSIVE mergeResolvers(_)
\* mergeResolvers of @graphql-modules/epoxy
mergeResolvers(list) ==
  IF Len(list) = 0 THEN EmptyResolvers
  ELSE MergeTwo(mergeResolvers(SubSeq(list, 1, Len(list) - 1)), list[Len(list)])

\* mergeGraphQLSchemas of @graphql-modules/epoxy: the fragments, in their order
mergeGraphQLSchemas(list) == list

---------------------------------------------------------------------------
(* Resolvers composition *)

\* lodash get(resolvers, 'Type.field')
Get(resolvers, path) ==
  LET v == resolvers[path[1]].f[path[2]]
  IN  IF v = NoField THEN Undefined ELSE v

\* lodash set(resolvers, 'Type.field', value): creates the type when it is missing
Set(resolvers, path, value) ==
  [resolvers EXCEPT ![path[1]] = [has |-> TRUE, f |-> [@.f EXCEPT ![path[2]] = value]]]

\* Object.keys(resolvers[typeName])
Keys(resolvers, typeName) == {k \in ResolverFields : resolvers[typeName].f[k] # NoField}

\* the keys of a mapping
MappingKeys(mapping) == {mapping[i].path : i \in 1..Len(mapping)}

\* resolveRelevantMappings: [ok, paths]; ok is FALSE when Object.keys throws the
\* TypeError of an undefined argument
resolveRelevantMappings(resolvers, path, allMappings) ==
  IF Len(path) = 2
  THEN IF path[2] = "*"
       THEN IF ~resolvers[path[1]].has
            THEN [ok |-> FALSE, paths |-> {}]
            ELSE [ok |-> TRUE,
                  paths |-> {<<path[1], k>> : k \in Keys(resolvers, path[1])}
                              \ MappingKeys(allMappings)]
       ELSE [ok |-> TRUE, paths |-> {path}]
  ELSE [ok |-> TRUE, paths |-> {}]

\* a mapping's value: one function, or an array of functions
Single(c) == [array |-> FALSE, fn |-> c, items |-> << >>]
Array(cs) == [array |-> TRUE, fn |-> "", items |-> cs]

\* asArray
asArray(fns) == IF fns.array THEN fns.items ELSE <<fns.fn>>

(* A function value is the sequence of the primitive functions it composes, *)
(* the outermost first: a composer, or the thunk () => get(resolvers, path).*)
Composer(c) == <<[kind |-> "composer", name |-> c, path |-> << >>]>>
Thunk(path) == <<[kind |-> "get", name |-> "", path |-> path]>>

\* the callback of the reduce of chainFunctions: (...args) => a(b(...args))
ChainSwapped(a, b) == b \o a
Chain(a, b) == a \o b

RECURSIVE ChainReduce(_, _, _)
ChainReduce(funcs, i, acc) ==
  IF i > Len(funcs) THEN acc ELSE ChainReduce(funcs, i + 1, Chain(acc, funcs[i]))

\* chainFunctions
chainFunctions(funcs) ==
  IF Len(funcs) = 1 THEN funcs[1] ELSE ChainReduce(funcs, 2, funcs[1])

RECURSIVE Call(_, _)
\* the call fn() of a function value with no argument
Call(fn, resolvers) ==
  LET p == fn[1]
      arg == IF Len(fn) = 1 THEN Undefined ELSE Call(Tail(fn), resolvers)
  IN  IF p.kind = "get" THEN Get(resolvers, p.path) ELSE Wrap(p.name, arg)

\* the function values of [...asArray(composeFns), () => get(resolvers, path)]
Funcs(composeFns, path) ==
  LET a == asArray(composeFns)
  IN  [i \in 1..(Len(a) + 1) |-> IF i <= Len(a) THEN Composer(a[i]) ELSE Thunk(path)]

RECURSIVE ForEachSet(_, _, _)
\* relevantFields.forEach(path => set(resolvers, path, fns()))
ForEachSet(resolvers, paths, composeFns) ==
  IF paths = {} THEN resolvers
  ELSE LET path == CHOOSE p \in paths : TRUE
           fns == chainFunctions(Funcs(composeFns, path))
       IN  ForEachSet(Set(resolvers, path, Call(fns, resolvers)), paths \ {path}, composeFns)

RECURSIVE ComposeFrom(_, _, _)
\* Object.keys(mapping).map(...) from the i-th key on; resolvers is changed in place
ComposeFrom(resolvers, mapping, i) ==
  IF i > Len(mapping) THEN [status |-> "ok", resolvers |-> resolvers]
  ELSE LET rel == resolveRelevantMappings(resolvers, mapping[i].path, mapping)
       IN  IF ~rel.ok THEN [status |-> "TypeError", resolvers |-> resolvers]
           ELSE ComposeFrom(ForEachSet(resolvers, rel.paths, mapping[i].fns), mapping, i + 1)

\* composeResolvers
composeResolvers(resolvers, mapping) == ComposeFrom(resolvers, mapping, 1)

---------------------------------------------------------------------------
(* The resolvers and type definitions of the modules *)

ModuleResolver(o, t, k) == <<"resolver", o, t, k>>

\* the resolvers option of each options object
OwnResolvers(o) ==
  [t \in TypeNames |->
     LET fields == CASE o = "A" /\ t = "Query" -> {"x"}
                     [] o = "B" /\ t = "Query" -> {"x", "y"}
                     [] o = "C" /\ t = "User" -> {"x"}
                     [] OTHER -> {}
     IN  [has |-> fields # {},
          f |-> [k \in ResolverFields |->
                   IF k \in fields THEN ModuleResolver(o, t, k) ELSE NoField]]]

\* the resolversComposition option of each options object
resolversComposition(o) ==
  CASE o = "A" -> <<[path |-> <<"Query", "x">>, fns |-> Array(<<"auth", "log">>)]>>
    [] o = "C" -> <<[path |-> <<"User", "*">>, fns |-> Single("auth")]>>
    [] OTHER -> << >>

\* the typeDefs option of each options object, as the SDL it stands for
OwnTypeDefs(o) == IF o = "C" THEN << >> ELSE << <<"sdl", o>> >>

RECURSIVE resolvers(_, _, _)
RECURSIVE ResolversMap(_, _, _, _)

\* this.imports.map(module => module.resolvers)
ResolversMap(ms, list, i, d) ==
  IF i > Len(list) THEN Value(<< >>)
  ELSE LET r == resolvers(ms, list[i], d - 1)
           rest == ResolversMap(ms, list, i + 1, d)
       IN  IF ~r.ok \/ ~rest.ok THEN Overflow ELSE Value(<<r.val>> \o rest.val)

\* get resolvers()
resolvers(ms, m, d) ==
  IF d = 0 THEN Overflow
  ELSE LET r == ResolversMap(ms, imports(ms, m), 1, d)
       IN  IF ~r.ok THEN Overflow
           ELSE Value(mergeResolvers(r.val \o <<OwnResolvers(ms[m].options)>>))

RECURSIVE typeDefs(_, _, _)
RECURSIVE TypeDefsMap(_, _, _, _)

\* this.imports.map(module => module.typeDefs), spread
TypeDefsMap(ms, list, i, d) ==
  IF i > Len(list) THEN Value(<< >>)
  ELSE LET r == typeDefs(ms, list[i], d - 1)
           rest == TypeDefsMap(ms, list, i + 1, d)
       IN  IF ~r.ok \/ ~rest.ok THEN Overflow ELSE Value(r.val \o rest.val)

\* get typeDefs()
typeDefs(ms, m, d) ==
  IF d = 0 THEN Overflow
  ELSE LET r == TypeDefsMap(ms, imports(ms, m), 1, d)
       IN  IF ~r.ok THEN Overflow
           ELSE Value(mergeGraphQLSchemas(r.val \o OwnTypeDefs(ms[m].options)))

---------------------------------------------------------------------------
(* contextBuilder and context.  The objects Object.assign works on are the *)
(* module instances and the builtResult object of context(); a heap holds  *)
(* their own properties during a call, with what the call did so far.      *)

\* the builtResult object of context()
Aggregate == "aggregate"

NoInjector == << >>
NoAggregate == [inj |-> NoInjector, fields |-> NoFields]

\* a request names the module whose context builder fails on it, or nobody
Nobody == "nobody"
Requests == Modules \cup {Nobody}

NewHeap(ms, inj) ==
  [mods |-> ms, agg |-> [inj |-> inj, fields |-> NoFields],
   status |-> "ok", invoked |-> {}, failed |-> FALSE]

\* the context fields of dst after the own enumerable ones of src were assigned
OverFields(dst, src) ==
  [f \in CtxFieldNames |-> IF src[f] # Absent THEN src[f] ELSE dst[f]]

\* Object.assign(target, value) of a plain object of context fields
AssignFields(h, target, fields) ==
  IF target = Aggregate
  THEN [h EXCEPT !.agg.fields = OverFields(@, fields)]
  ELSE [h EXCEPT !.mods[target].fields = OverFields(@, fields)]

\* Object.assign(target, source) onto a module instance: every own enumerable
\* property of source (_options, _moduleConfig and context of a module instance,
\* injector and the context fields) is written on target
AssignObject(h, target, source) ==
  IF target = source THEN h
  ELSE IF source = Aggregate
  THEN [h EXCEPT !.mods[target].inj = IF h.agg.inj # NoInjector THEN h.agg.inj ELSE @,
                 !.mods[target].fields = OverFields(@, h.agg.fields)]
  ELSE LET src == h.mods[source]
       IN  [h EXCEPT !.mods[target].options = src.options,
                     !.mods[target].config = src.config,
                     !.mods[target].context = src.context,
                     !.mods[target].inj = IF src.inj # NoInjector THEN src.inj ELSE @,
                     !.mods[target].fields = OverFields(@, src.fields)]

\* Object.assign(builtResult, contextBuilderDefinition(request, currentContext, injector))
\* for the contextBuilder option of options object o: unset, it is () => {};
\* a "sync" one returns its fields or throws; an "async" one returns a promise,
\* fulfilled or rejected, which has no own enumerable property
InvokeDefinition(h, o, builtResult, request) ==
  LET fails == (request = o)
  IN  CASE optBuilder[o] = "unset" -> h
        [] optBuilder[o] = "sync" ->
             IF fails
             THEN [h EXCEPT !.status = "Error", !.invoked = @ \cup {o}, !.failed = TRUE]
             ELSE AssignFields([h EXCEPT !.invoked = @ \cup {o}], builtResult, CtxFields(o))
        [] optBuilder[o] = "async" ->
             [h EXCEPT !.invoked = @ \cup {o}, !.failed = @ \/ fails]

RECURSIVE contextBuilder(_, _, _, _, _)
RECURSIVE ContextReduce(_, _, _, _, _, _, _)

\* this.imports.reduce((acc, module) =>
\*   Object.assign(acc, module.contextBuilder(request, acc, injector), builtResult))
\* from the i-th import on: the reduce has no initial value, so acc is imports[0]
ContextReduce(h, list, i, acc, builtResult, request, d) ==
  IF i > Len(list) THEN h
  ELSE LET h1 == contextBuilder(h, list[i], acc, request, d - 1)
       IN  IF h1.status # "ok" THEN h1
           ELSE ContextReduce(AssignObject(h1, acc, builtResult),
                              list, i + 1, acc, builtResult, request, d)

\* the function get contextBuilder() returns, called with (request, builtResult, injector)
contextBuilder(h, m, builtResult, request, d) ==
  IF d = 0 THEN [h EXCEPT !.status = "RangeError"]
  ELSE LET o == h.mods[m].options
           list == imports(h.mods, m)
       IN  IF Len(list) = 0
           THEN [h EXCEPT !.status = "TypeError"]
           ELSE LET h1 == ContextReduce(h, list, 2, list[1], builtResult, request, d)
                IN  IF h1.status # "ok" THEN h1
                    ELSE InvokeDefinition(h1, o, builtResult, request)

\* context = async (request) => ...: the heap when the promise settles, fulfilled
\* with builtResult (status "ok") or rejected with what was thrown; the last
\* Object.assign(builtResult, builtResult) changes nothing
context(ms, this, request) ==
  LET inj == injector(ms, this, StackLimit)
  IN  IF ~inj.ok
      THEN [NewHeap(ms, NoInjector) EXCEPT !.status = "RangeError"]
      ELSE contextBuilder(NewHeap(ms, inj.val), this, Aggregate, request, StackLimit)

---------------------------------------------------------------------------
(* The state machine of the module graph *)

\* new GraphQLModule(options, config)
NewModule(o, config, self) ==
  [alive |-> TRUE, options |-> o, config |-> config, context |-> self,
   inj |-> NoInjector, fields |-> NoFields]

NotConstructed ==
  [alive |-> FALSE, options |-> NoOptions, config |-> DefaultConfig, context |-> NoOptions,
   inj |-> NoInjector, fields |-> NoFields]

InitialModules == [i \in Instances |-> IF i \in Modules THEN NewModule(i, DefaultConfig, i)
                                       ELSE NotConstructed]

Result(op, target, status) ==
  [op |-> op, target |-> target, status |-> status, list |-> << >>,
   map |-> EmptyResolvers, ctx |-> NoAggregate, invoked |-> {}, failed |-> FALSE,
   request |-> Nobody]

NoResult == Result("none", "none", "ok")

IdleCompose == [status |-> "idle", resolvers |-> EmptyResolvers]

StatusOf(v) == IF v.ok THEN "ok" ELSE "RangeError"

Init ==
  /\ optImports \in [Modules -> SeqsUpTo(Modules, MaxImports)]
  /\ \A o \in Modules : optImports[o] \in ImportLists(o)
  /\ optBuilder \in [Modules -> BuilderStyles]
  /\ mods = InitialModules
  /\ ret = NoResult
  /\ cResolvers = EmptyResolvers
  /\ cMapping = << >>
  /\ cOut = IdleCompose

UnchangedCompose == UNCHANGED <<cResolvers, cMapping, cOut>>
UnchangedOptions == UNCHANGED <<optImports, optBuilder>>

\* module.withConfig(config)
withConfig(x, config) ==
  /\ mods[x].alive
  /\ \E w \in Derived :
       /\ ~mods[w].alive
       /\ mods' = [mods EXCEPT ![w] = NewModule(mods[x].options, config, w)]
  /\ ret' = Result("withConfig", x, "ok")
  /\ UnchangedOptions /\ UnchangedCompose

GetProviders(x) ==
  /\ mods[x].alive
  /\ LET v == providers(mods, x, StackLimit)
     IN  ret' = [Result("providers", x, StatusOf(v)) EXCEPT !.list = v.val]
  /\ UNCHANGED mods /\ UnchangedOptions /\ UnchangedCompose

GetTypeDefs(x) ==
  /\ mods[x].alive
  /\ LET v == typeDefs(mods, x, StackLimit)
     IN  ret' = [Result("typeDefs", x, StatusOf(v)) EXCEPT !.list = v.val]
  /\ UNCHANGED mods /\ UnchangedOptions /\ UnchangedCompose

GetResolvers(x) ==
  /\ mods[x].alive
  /\ LET v == resolvers(mods, x, StackLimit)
     IN  ret' = [Result("resolvers", x, StatusOf(v)) EXCEPT
                   !.map = IF v.ok THEN v.val ELSE EmptyResolvers]
  /\ UNCHANGED mods /\ UnchangedOptions /\ UnchangedCompose

GetImports(x) ==
  /\ mods[x].alive
  /\ ret' = [Result("imports", x, "ok") EXCEPT !.list = imports(mods, x)]
  /\ UNCHANGED mods /\ UnchangedOptions /\ UnchangedCompose

GetInjector(x) ==
  /\ mods[x].alive
  /\ LET v == injector(mods, x, StackLimit)
     IN  ret' = [Result("injector", x, StatusOf(v)) EXCEPT !.list = v.val]
  /\ UNCHANGED mods /\ UnchangedOptions /\ UnchangedCompose

\* x.context(request): the own property context of x, bound to the instance it
\* was created on
Context(x, request) ==
  /\ mods[x].alive
  /\ LET h == context(mods, mods[x].context, request)
     IN  /\ mods' = h.mods
         /\ ret' = [Result("context", x, h.status) EXCEPT
                      !.ctx = IF h.status = "ok" THEN h.agg ELSE NoAggregate,
                      !.invoked = h.invoked, !.failed = h.failed, !.request = request]
  /\ UnchangedOptions /\ UnchangedCompose

Next ==
  \/ \E x \in Instances, config \in DerivedConfigs : withConfig(x, config)
  \/ \E x \in Instances : GetProviders(x)
  \/ \E x \in Instances : GetTypeDefs(x)
  \/ \E x \in Instances : GetResolvers(x)
  \/ \E x \in Instances : GetImports(x)
  \/ \E x \in Instances : GetInjector(x)
  \/ \E x \in Instances, request \in Requests : Context(x, request)

Spec == Init /\ [][Next]_vars

---------------------------------------------------------------------------
(* The state machine of composeResolvers: the call on every small input *)

InputResolver(t, k) == <<"resolver", "input", t, k>>

\* the resolver maps given to composeResolvers: a type is missing, or has x, or x and y
FieldSets == {{}, {"x"}, {"x", "y"}}
ResolverInputs ==
  {[t \in TypeNames |->
      [has |-> fs[t] # {},
       f |-> [k \in ResolverFields |->
                IF k \in fs[t] THEN InputResolver(t, k) ELSE NoField]]] :
   fs \in [TypeNames -> FieldSets]}

\* the keys of the mappings: 'Type.field', 'Type.*' and a path of one segment
KeyPaths ==
  {<<"Query", "x">>, <<"Query", "y">>, <<"Query", "*">>,
   <<"User", "x">>, <<"User", "*">>, <<"Query">>}

\* the values of the mappings
FnValues == {Single("f"), Array(<< >>), Array(<<"g">>), Array(<<"f", "g">>)}

MappingEntries == [path : KeyPaths, fns : FnValues]

\* a mapping is an object: its keys are distinct
Mappings ==
  {mp \in SeqsUpTo(MappingEntries, MaxEntries) :
     \A i, j \in 1..Len(mp) : i # j => mp[i].path # mp[j].path}

InitCompose ==
  /\ optImports = [o \in Modules |-> << >>]
  /\ optBuilder = [o \in Modules |-> "unset"]
  /\ mods = InitialModules
  /\ ret = NoResult
  /\ cResolvers \in ResolverInputs
  /\ cMapping \in Mappings
  /\ cOut = IdleCompose

\* composeResolvers(resolvers, mapping); cResolvers keeps the map as it was given
Compose ==
  /\ cOut.status = "idle"
  /\ cOut' = composeResolvers(cResolvers, cMapping)
  /\ UNCHANGED <<optImports, optBuilder, mods, ret, cResolvers, cMapping>>

NextCompose == Compose

SpecCompose == InitCompose /\ [][NextCompose]_vars

---------------------------------------------------------------------------
(* Properties of the module graph *)

\* the options object and the imports of the module the last operation was on
Target == ret.target
TargetOptions == mods[Target].options
TargetImports == imports(mods, Target)

\* the imports below the module of the last operation hold no cycle
TargetAcyclic == providers(mods, Target, StackLimit).ok

\* x imports y, directly or through other modules
RECURSIVE ReachesIn(_, _, _)
ReachesIn(x, y, n) ==
  IF n = 0 THEN FALSE
  ELSE \E i \in 1..Len(imports(mods, x)) :
         imports(mods, x)[i] = y \/ ReachesIn(imports(mods, x)[i], y, n - 1)
OnCycle(x) == ReachesIn(x, x, Cardinality(Instances))

IsGetterResult == ret.op \in {"providers", "typeDefs", "resolvers", "injector"}

\* the fields of a context builder are in the aggregate, with its values
HoldsFieldsOf(ctx, o) ==
  \A f \in CtxFieldNames : CtxFields(o)[f] # Absent => ctx.fields[f] = CtxFields(o)[f]

(* C1: for every module M, also one with an empty imports list and one with *)
(* no contextBuilder option, M.context(request) resolves with an aggregate  *)
(* that holds the injector built from M.providers under `injector` and      *)
(* every field M's own context builder returns.                             *)
C1_ContextResolvesWithInjectorAndOwnFields ==
  (ret.op = "context" /\ ret.request = Nobody /\ TargetAcyclic)
    => /\ ret.status = "ok"
       /\ ret.ctx.inj = injector(mods, Target, StackLimit).val
       /\ optBuilder[TargetOptions] # "unset" => HoldsFieldsOf(ret.ctx, TargetOptions)

(* C2: A.context(request) invokes the context builder of every import of A, *)
(* the aggregate holds the fields of the imports' builders, and a field     *)
(* both A's builder and an import's builder return holds A's value.         *)
C2_ImportsFoldedOwnLast ==
  (/\ ret.op = "context" /\ ret.request = Nobody /\ TargetAcyclic
   /\ Len(TargetImports) >= 1
   /\ optBuilder[TargetOptions] = "sync"
   /\ \A i \in 1..Len(TargetImports) : optBuilder[mods[TargetImports[i]].options] = "sync")
    => /\ ret.status = "ok"
       /\ \A i \in 1..Len(TargetImports) :
            LET o == mods[TargetImports[i]].options
            IN  o \in ret.invoked /\ ret.ctx.fields[o] = o
       /\ ret.ctx.fields["shared"] = TargetOptions

(* C3: if a context builder invoked during M.context(request) throws or     *)
(* returns a rejected promise, the promise of M.context(request) rejects    *)
(* and no aggregate is delivered.                                           *)
C3_FailedBuilderRejectsContext ==
  (ret.op = "context" /\ ret.failed) => (ret.status # "ok" /\ ret.ctx = NoAggregate)

(* C4: the resolvers getter of a module with a resolversComposition holds,  *)
(* at every path the mapping targets, the module's own resolver wrapped by  *)
(* the entry's composer functions.                                          *)
C4_ResolversGetterComposesOwnMap ==
  (ret.op = "resolvers" /\ ret.status = "ok")
    => LET composed == composeResolvers(OwnResolvers(TargetOptions),
                                        resolversComposition(TargetOptions)).resolvers
       IN  \A t \in TypeNames, k \in ResolverFields :
             composed[t].f[k] # NoField => ret.map[t].f[k] = composed[t].f[k]

\* the providers option of the options object, evaluated against the config
DeclaredProviders(o, config) ==
  IF ProvidersForm(o) = "function" THEN ProvidersFunction(o, config) ELSE ProvidersList(o)

\* the ModuleConfig provider of the module and then its declared providers
OwnList(x) ==
  <<[provide |-> <<"ModuleConfig", NameOf(mods[x].options)>>, useValue |-> mods[x].config]>>
    \o DeclaredProviders(mods[x].options, mods[x].config)

RECURSIVE InImportOrder(_, _)
\* I1.providers, then I2.providers, ..., then In.providers
InImportOrder(list, i) ==
  IF i > Len(list) THEN << >>
  ELSE providers(mods, list[i], StackLimit).val \o InImportOrder(list, i + 1)

RECURSIVE InReverseImportOrder(_, _)
\* In.providers, ..., then I2.providers, then I1.providers
InReverseImportOrder(list, i) ==
  IF i > Len(list) THEN << >>
  ELSE InReverseImportOrder(list, i + 1) \o providers(mods, list[i], StackLimit).val

(* C5, as stated: M.providers is I1.providers, ..., In.providers in import  *)
(* order, followed by M's own list.                                         *)
C5_ProvidersInImportOrder ==
  (ret.op = "providers" /\ ret.status = "ok")
    => ret.list = InImportOrder(TargetImports, 1) \o OwnList(Target)

(* C5, amended: M.providers is In.providers, ..., I1.providers, the imports *)
(* in reverse import order and each import's flattened list kept whole,     *)
(* followed by M's own list: the ModuleConfig(M.name) provider bound to M's *)
(* config and then M's declared providers in declaration order.             *)
C5_ProvidersInReverseImportOrder ==
  (ret.op = "providers" /\ ret.status = "ok")
    => ret.list = InReverseImportOrder(TargetImports, 1) \o OwnList(Target)

\* the providers of a module with two imports of different providers were read
C5_Witness ==
  /\ ret.op = "providers" /\ ret.status = "ok"
  /\ Len(TargetImports) >= 2
  /\ InImportOrder(TargetImports, 1) # InReverseImportOrder(TargetImports, 1)
  /\ Len(DeclaredProviders(TargetOptions, mods[Target].config)) >= 2

(* C6: the providers, typeDefs, resolvers or injector getter of a module on *)
(* a cycle of imports ends by raising CyclicImportError.                    *)
C6_CycleRaisesCyclicImportError ==
  (IsGetterResult /\ OnCycle(Target)) => ret.status = "CyclicImportError"

---------------------------------------------------------------------------
(* Properties of composeResolvers *)

Composed == cOut.status # "idle"

IsWildcard(path) == Len(path) = 2 /\ path[2] = "*"
IsExplicit(path) == Len(path) = 2 /\ path[2] # "*"

RECURSIVE WrapAll(_, _)
\* f1(f2(...fn(r)...)) for the functions <<f1, ..., fn>>
WrapAll(fns, r) == IF fns = << >> THEN r ELSE Wrap(Head(fns), WrapAll(Tail(fns), r))

\* the functions of a mapping value: those of the array, or the one function
FnsOf(v) == IF v.array THEN v.items ELSE <<v.fn>>

\* the resolver at a path of a resolver map, undefined when it has none
At(rm, path) == IF rm[path[1]].f[path[2]] = NoField THEN Undefined ELSE rm[path[1]].f[path[2]]

Has(rm, path) == rm[path[1]].f[path[2]] # NoField

\* the i-th key of the mapping is a 'Type.*' that Object.keys throws on: the
\* map was given without Type and no earlier 'Type.field' key has created it
ThrowsAt(i) ==
  /\ IsWildcard(cMapping[i].path)
  /\ ~cResolvers[cMapping[i].path[1]].has
  /\ ~\E j \in 1..(i - 1) :
        IsExplicit(cMapping[j].path) /\ cMapping[j].path[1] = cMapping[i].path[1]

\* composeResolvers got as far as the i-th key of the mapping
Processed(i) == Composed /\ \A j \in 1..(i - 1) : ~ThrowsAt(j)

Orderings ==
  LET n == Len(cMapping)
  IN  {[i \in 1..n |-> cMapping[p[i]]] :
         p \in {q \in [1..n -> 1..n] : \A a, b \in 1..n : a # b => q[a] # q[b]}}

(* C8: for a mapping with 'Type.*' and explicit 'Type.field' entries, in    *)
(* every insertion order of its keys, composeResolvers wraps with the       *)
(* wildcard's functions exactly the fields of Type without an explicit      *)
(* entry and every explicitly mapped field with its own entry's functions,  *)
(* and the resulting map is the same for every ordering.                    *)
C8_WildcardOrderIndependent ==
  Composed =>
    \A i \in 1..Len(cMapping) :
      IsWildcard(cMapping[i].path) =>
        LET t == cMapping[i].path[1]
        IN  /\ \A o \in Orderings : composeResolvers(cResolvers, o) = cOut
            /\ \A k \in ResolverFields :
                 LET explicit == {j \in 1..Len(cMapping) : cMapping[j].path = <<t, k>>}
                     out == cOut.resolvers[t].f[k]
                 IN  IF explicit # {}
                     THEN \A j \in explicit :
                            out = WrapAll(FnsOf(cMapping[j].fns), At(cResolvers, <<t, k>>))
                     ELSE IF Has(cResolvers, <<t, k>>)
                          THEN out = WrapAll(FnsOf(cMapping[i].fns), cResolvers[t].f[k])
                          ELSE out = NoField

\* the entry matches nothing in the resolver map it is given
Unmatched(e) ==
  \/ IsExplicit(e.path) /\ ~Has(cResolvers, e.path)
  \/ IsWildcard(e.path) /\ ~cResolvers[e.path[1]].has

(* C9: for mapping entries that match nothing in the resolver map,          *)
(* composeResolvers raises no error and does nothing: the map gains no type *)
(* or field and every resolver is as it was.                                *)
C9_UnmatchedEntryIsNoOp ==
  (Composed /\ \A i \in 1..Len(cMapping) : Unmatched(cMapping[i]))
    => (cOut.status = "ok" /\ cOut.resolvers = cResolvers)

====
